---- MODULE Spec2Model ----
(***************************************************************************)
(* Model of runtime/src/auction.rs: the Auctions runtime module.           *)
(*                                                                         *)
(* State: the three storage maps of decl_storage!, and the position of the *)
(* host's extrinsic counter.  `created` is the history of the record ids   *)
(* the successful creations generated, in order.  A map is a function      *)
(* whose DOMAIN is the set of keys present, so StorageMap::exists is       *)
(* membership in DOMAIN and StorageMap::insert is an override.             *)
(* Option<T> values are sequences: <<>> is None and <<x>> is Some(x).      *)
(*                                                                         *)
(* Operations: the three dispatchable calls of decl_module! and the pub    *)
(* fn change_auction_status.  Each is an operator that computes, from the  *)
(* current store and the call's arguments, the returned result and the     *)
(* store the call leaves; the action applies it and records the call in    *)
(* `last`.                                                                 *)
(***************************************************************************)
EXTENDS Integers, Sequences, FiniteSets, TLC

VARIABLES AuctionRecords, RecordIds, AuctionsItemRecord, last, next_extrinsic,
          created

vars == <<AuctionRecords, RecordIds, AuctionsItemRecord, last, next_extrinsic,
          created>>

store == <<AuctionRecords, RecordIds, AuctionsItemRecord>>

(* ----------------------------- bounds ---------------------------------- *)

\* extrinsic indices the host hands to random_value are 0..MaxExtrinsic
MaxExtrinsic == 1

\* AccountId: two accounts, so that a call has a seller and a non-seller
Accounts == {1, 2}

\* item ids a caller passes
ItemIds == {0, 1}

\* the other host inputs of random_value: the random seed and the block
\* number are those of one block
Seeds == {0}

BlockNumbers == {0}

ExtrinsicIndices == 0..MaxExtrinsic

\* begin_time arguments: the current time (get_current_time) and a later one
Times == {0, 1}

\* start_price arguments (Balance is unsigned)
Prices == {1}

\* bid_range arguments: the rejected value and an accepted one
BidRanges == {0, 1}

(* ----------------------------- types ----------------------------------- *)

\* enum AuctionStatus; Default is NotStarted
AuctionStatus == {"NotStarted", "Started", "Paused", "Selled", "Unselled"}

None == <<>>

Some(x) == <<x>>

is_some(o) == o # <<>>

unwrap(o) == o[1]

\* The failure kinds, named as the specification names them; the source
\* returns a &'static str message for each.
\*   InvalidParameter   "加价幅度不可为0"           (l.72)
\*   AlreadyListed      "此物品已在拍卖状态"        (l.75)
\*   SelfBidForbidden   "竞拍者不能为发布拍品人"    (l.104)
\*   RecordNotFound     "不存在此拍卖"              (l.106, 140, 144, 148)
\*                      "无此拍卖信息"              (l.181)
\*   NotBiddable        "此拍卖品当前不可拍卖"      (l.109)
\*   AuctionNotStarted  "拍卖尚未开始"              (l.112)
\*   Unauthorized       "用户无此拍卖信息"          (l.184)
Results == {"Ok", "InvalidParameter", "AlreadyListed", "SelfBidForbidden",
            "RecordNotFound", "NotBiddable", "AuctionNotStarted", "Unauthorized"}

(* ------------------------- helper functions ---------------------------- *)

\* random_value with extrinsic_index left out of the hashed payload
random_value_without_extrinsic_index(seed, sender, extrinsic_index, block_number) ==
    (seed * Cardinality(Accounts) + (sender - 1)) * Cardinality(BlockNumbers)
        + block_number

\* random_value: blake2_128 of the encoded tuple (random_seed, sender,
\* extrinsic_index, block_number).  The hash is modelled as a collision-free
\* encoding of the tuple into the id space: equal inputs give equal ids,
\* different inputs give different ids.
random_value(seed, sender, extrinsic_index, block_number) ==
    ((seed * Cardinality(Accounts) + (sender - 1)) * Cardinality(ExtrinsicIndices)
        + extrinsic_index) * Cardinality(BlockNumbers) + block_number

\* [u8; 16]: record ids and item ids are values of the same type
Ids ==
    ItemIds \cup {random_value(seed, sender, extrinsic_index, block_number) :
                     seed \in Seeds, sender \in Accounts,
                     extrinsic_index \in ExtrinsicIndices,
                     block_number \in BlockNumbers}

\* get_current_time: a stub that returns 0
get_current_time == 0

\* ensure_signed(origin): the calls are made by signed origins, whose account
\* is the sender
ensure_signed(origin) == origin \in Accounts

\* The host applies one extrinsic per call and numbers the extrinsics of a
\* block in increasing order, so the extrinsic_index a create_auction reads
\* is one the host has not handed out before.  The calls between two
\* creations are extrinsics too: indices may be skipped.
HostOffers(extrinsic_index) == extrinsic_index >= next_extrinsic

\* StorageMap::insert
insert(map, key, value) == (key :> value) @@ map

\* an operation's outcome: the result returned and the store it leaves
Outcome(res, recs, rids, items) ==
    [result |-> res, records |-> recs, record_ids |-> rids, item_records |-> items]

Failed(res) == Outcome(res, AuctionRecords, RecordIds, AuctionsItemRecord)

\* change_auction_status that also makes the caller the record's seller
change_auction_status_takes_seller(sender, record_id, status) ==
    IF record_id \notin DOMAIN AuctionRecords
    THEN Failed("RecordNotFound")
    ELSE IF ~(AuctionRecords[record_id].item_seller # sender)
    THEN Failed("Unauthorized")
    ELSE Outcome("Ok",
                 [AuctionRecords EXCEPT ![record_id].status = status,
                                        ![record_id].item_seller = sender],
                 RecordIds, AuctionsItemRecord)

\* change_auction_status with the status written before the ownership check
change_auction_status_write_first(sender, record_id, status) ==
    IF record_id \notin DOMAIN AuctionRecords
    THEN Failed("RecordNotFound")
    ELSE Outcome(IF ~(AuctionRecords[record_id].item_seller # sender)
                 THEN "Unauthorized" ELSE "Ok",
                 [AuctionRecords EXCEPT ![record_id].status = status],
                 RecordIds, AuctionsItemRecord)

\* change_auction_status(sender, record_id, status)
change_auction_status(sender, record_id, status) ==
    IF record_id \notin DOMAIN AuctionRecords
    THEN Failed("RecordNotFound")
    ELSE IF ~(AuctionRecords[record_id].item_seller # sender)
    THEN Failed("Unauthorized")
    ELSE Outcome("Ok",
                 [AuctionRecords EXCEPT ![record_id].status = status],
                 RecordIds, AuctionsItemRecord)

\* the AuctionRecord create_auction builds
auction_record_of(record_id, item_id, begin_time, start_price, bid_range, item_seller) ==
    [record_id |-> record_id,
     item_id |-> item_id,
     begin_time |-> begin_time,
     end_time |-> None,
     start_price |-> start_price,
     current_price |-> 0,
     bid_range |-> bid_range,
     status |-> "NotStarted",
     item_receiver |-> None,
     item_seller |-> item_seller]

\* create_auction without the insert into RecordIds
create_auction_no_reverse_index(sender, item_id, begin_time, start_price, bid_range, item_seller, seed, extrinsic_index, block_number) ==
    IF ~(bid_range > 0)
    THEN Failed("InvalidParameter")
    ELSE IF ~(item_id \notin DOMAIN AuctionsItemRecord)
    THEN Failed("AlreadyListed")
    ELSE LET record_id == random_value(seed, sender, extrinsic_index, block_number)
         IN  Outcome("Ok",
                     insert(AuctionRecords, record_id,
                            auction_record_of(record_id, item_id, begin_time, start_price,
                                              bid_range, item_seller)),
                     RecordIds,
                     insert(AuctionsItemRecord, item_id, item_seller))

\* create_auction without the check of bid_range
create_auction_no_range_check(sender, item_id, begin_time, start_price, bid_range, item_seller, seed, extrinsic_index, block_number) ==
    IF ~(item_id \notin DOMAIN AuctionsItemRecord)
    THEN Failed("AlreadyListed")
    ELSE LET record_id == random_value(seed, sender, extrinsic_index, block_number)
         IN  Outcome("Ok",
                     insert(AuctionRecords, record_id,
                            auction_record_of(record_id, item_id, begin_time, start_price,
                                              bid_range, item_seller)),
                     insert(RecordIds, <<item_seller, item_id>>, record_id),
                     insert(AuctionsItemRecord, item_id, item_seller))

\* create_auction without the check that the item is not listed yet
create_auction_no_listed_check(sender, item_id, begin_time, start_price, bid_range, item_seller, seed, extrinsic_index, block_number) ==
    IF ~(bid_range > 0)
    THEN Failed("InvalidParameter")
    ELSE LET record_id == random_value(seed, sender, extrinsic_index, block_number)
             new_auction == [record_id |-> record_id,
                             item_id |-> item_id,
                             begin_time |-> begin_time,
                             end_time |-> None,
                             start_price |-> start_price,
                             current_price |-> 0,
                             bid_range |-> bid_range,
                             status |-> "NotStarted",
                             item_receiver |-> None,
                             item_seller |-> item_seller]
         IN  Outcome("Ok",
                     insert(AuctionRecords, record_id, new_auction),
                     insert(RecordIds, <<item_seller, item_id>>, record_id),
                     insert(AuctionsItemRecord, item_id, item_seller))

\* create_auction(origin, item_id, begin_time, start_price, bid_range,
\* item_seller); sender is the signed origin, and seed, extrinsic_index and
\* block_number are the host values random_value reads
create_auction(sender, item_id, begin_time, start_price, bid_range, item_seller, seed, extrinsic_index, block_number) ==
    IF ~(bid_range > 0)
    THEN Failed("InvalidParameter")
    ELSE IF ~(item_id \notin DOMAIN AuctionsItemRecord)
    THEN Failed("AlreadyListed")
    ELSE LET record_id == random_value(seed, sender, extrinsic_index, block_number)
             new_auction == [record_id |-> record_id,
                             item_id |-> item_id,
                             begin_time |-> begin_time,
                             end_time |-> None,
                             start_price |-> start_price,
                             current_price |-> 0,
                             bid_range |-> bid_range,
                             status |-> "NotStarted",
                             item_receiver |-> None,
                             item_seller |-> item_seller]
         IN  Outcome("Ok",
                     insert(AuctionRecords, record_id, new_auction),
                     insert(RecordIds, <<item_seller, item_id>>, record_id),
                     insert(AuctionsItemRecord, item_id, item_seller))

\* create_auction_record(origin, auction_user, record_id): the bid call
create_auction_record(sender, auction_user, record_id) ==
    IF ~(sender = auction_user)
    THEN Failed("SelfBidForbidden")
    ELSE IF record_id \notin DOMAIN AuctionRecords
    THEN Failed("RecordNotFound")
    ELSE LET auction_record == AuctionRecords[record_id]
             now == get_current_time
         IN  IF ~(auction_record.status = "NotStarted")
             THEN Failed("NotBiddable")
             ELSE IF ~(now >= auction_record.begin_time)
             THEN Failed("AuctionNotStarted")
             ELSE IF (~is_some(auction_record.end_time))
                        \/ (now > unwrap(auction_record.end_time))
             THEN IF is_some(auction_record.item_receiver)
                  THEN change_auction_status(sender, record_id, "Selled")
                  ELSE change_auction_status(sender, record_id, "Unselled")
             ELSE \* the branch for status Started has an empty body
                  Outcome("Ok", AuctionRecords, RecordIds, AuctionsItemRecord)

\* auction_settle_accounts(origin, item_id): the settle call
auction_settle_accounts(sender, item_id) ==
    IF item_id \notin DOMAIN AuctionsItemRecord
    THEN Failed("RecordNotFound")
    ELSE LET item_seller == AuctionsItemRecord[item_id]
         IN  IF <<item_seller, item_id>> \notin DOMAIN RecordIds
             THEN Failed("RecordNotFound")
             ELSE LET record_id == RecordIds[<<item_seller, item_id>>]
                  IN  IF record_id \notin DOMAIN AuctionRecords
                      THEN Failed("RecordNotFound")
                      ELSE LET auction_record == AuctionRecords[record_id]
                               now == get_current_time
                           IN  IF (auction_record.status = "Selled")
                                     \/ (auction_record.status = "Unselled")
                               THEN Outcome("Ok", AuctionRecords, RecordIds,
                                            AuctionsItemRecord)
                               ELSE IF is_some(auction_record.end_time)
                                         /\ (unwrap(auction_record.end_time) < now)
                               THEN IF auction_record.current_price
                                          = auction_record.start_price
                                    THEN change_auction_status(sender, item_id, "Unselled")
                                    ELSE change_auction_status(sender, item_id, "Selled")
                               ELSE change_auction_status(sender, item_id, "Selled")

(* ----------------------------- state ----------------------------------- *)

\* the call made last: its name and the result it returned
Call(op) == [op |-> op, result |-> "Ok"]

Init ==
    /\ AuctionRecords = <<>>
    /\ RecordIds = <<>>
    /\ AuctionsItemRecord = <<>>
    /\ last = Call("none")
    /\ next_extrinsic = 0
    /\ created = <<>>

\* one dispatched call: the store becomes the one the call leaves, and the
\* call and its result are recorded
Apply(out, call) ==
    /\ AuctionRecords' = out.records
    /\ RecordIds' = out.record_ids
    /\ AuctionsItemRecord' = out.item_records
    /\ last' = [call EXCEPT !.result = out.result]

CreateAuction ==
    \E sender \in Accounts, item_id \in ItemIds, begin_time \in Times,
       start_price \in Prices, bid_range \in BidRanges, item_seller \in Accounts,
       seed \in Seeds, extrinsic_index \in ExtrinsicIndices,
       block_number \in BlockNumbers :
        /\ ensure_signed(sender)
        /\ HostOffers(extrinsic_index)
        /\ Apply(create_auction(sender, item_id, begin_time, start_price, bid_range,
                                item_seller, seed, extrinsic_index, block_number),
                 Call("create_auction"))
        /\ next_extrinsic' = IF last'.result = "Ok" THEN extrinsic_index + 1
                                                    ELSE next_extrinsic
        /\ created' = IF last'.result = "Ok"
                      THEN Append(created, random_value(seed, sender, extrinsic_index,
                                                        block_number))
                      ELSE created

PlaceBid ==
    \E sender \in Accounts, auction_user \in Accounts, record_id \in Ids :
        /\ ensure_signed(sender)
        /\ Apply(create_auction_record(sender, auction_user, record_id),
                 Call("place_bid"))
        /\ UNCHANGED <<next_extrinsic, created>>

Settle ==
    \E sender \in Accounts, item_id \in ItemIds :
        /\ ensure_signed(sender)
        /\ Apply(auction_settle_accounts(sender, item_id), Call("settle"))
        /\ UNCHANGED <<next_extrinsic, created>>

\* the pub fn change_auction_status called directly; its sender is the
\* account its caller passes
ForceStatus ==
    \E sender \in Accounts, record_id \in Ids, status \in AuctionStatus :
        /\ ensure_signed(sender)
        /\ Apply(change_auction_status(sender, record_id, status),
                 Call("force_status"))
        /\ UNCHANGED <<next_extrinsic, created>>

Next == CreateAuction \/ PlaceBid \/ Settle \/ ForceStatus

Spec == Init /\ [][Next]_vars

TypeOK ==
    /\ DOMAIN AuctionRecords \subseteq Ids
    /\ \A id \in DOMAIN AuctionRecords :
          /\ AuctionRecords[id].record_id = id
          /\ AuctionRecords[id].status \in AuctionStatus
          /\ AuctionRecords[id].item_seller \in Accounts
    /\ DOMAIN RecordIds \subseteq Accounts \X ItemIds
    /\ DOMAIN AuctionsItemRecord \subseteq ItemIds
    /\ last.result \in Results
    /\ next_extrinsic \in 0..(MaxExtrinsic + 1)
    /\ created \in Seq(Ids)

\* No call writes end_time, current_price or item_receiver: create_auction
\* stores None, 0 and None, and change_auction_status writes status alone.
\* With get_current_time = 0 no stored record is ever past its end_time, so
\* the expiry branch of auction_settle_accounts (end_time set and before now)
\* is never taken.
FieldsNeverWritten ==
    \A id \in DOMAIN AuctionRecords :
        /\ AuctionRecords[id].end_time = None
        /\ AuctionRecords[id].current_price = 0
        /\ AuctionRecords[id].item_receiver = None

(* ------------------------- vocabulary of the claims -------------------- *)

Terminal(status) == status \in {"Selled", "Unselled"}

\* the store an outcome leaves
StoreOf(out) == <<out.records, out.record_ids, out.item_records>>

\* the ids of the stored non-terminal records of an item
ActiveRecords(item_id) ==
    {id \in DOMAIN AuctionRecords :
        /\ AuctionRecords[id].item_id = item_id
        /\ ~Terminal(AuctionRecords[id].status)}

\* the record settle looks up for an item: the one the reverse indices point to
Indexed(item_id) ==
    /\ item_id \in DOMAIN AuctionsItemRecord
    /\ <<AuctionsItemRecord[item_id], item_id>> \in DOMAIN RecordIds
    /\ RecordIds[<<AuctionsItemRecord[item_id], item_id>>] \in DOMAIN AuctionRecords

IndexedId(item_id) == RecordIds[<<AuctionsItemRecord[item_id], item_id>>]

(* ------------------------------- claims -------------------------------- *)

\* C1: every call of create_auction, place_bid, settle or force_status that
\* returns a failure leaves AuctionRecords, RecordIds and AuctionsItemRecord
\* exactly as they were before the call.
C1_FailureLeavesStore == [][last'.result # "Ok" => UNCHANGED store]_vars

\* C1 witness: a settle that failed inside change_auction_status, after it
\* had read the indices and the record.
C1_Witness ==
    /\ last.op = "settle"
    /\ last.result = "Unauthorized"
    /\ DOMAIN AuctionRecords # {}

\* the items that have a stored non-terminal record hold at most one
AtMostOneActive == \A item_id \in ItemIds : Cardinality(ActiveRecords(item_id)) <= 1

\* C2 as stated: at most one non-terminal record exists per item_id, and a
\* create_auction for an item_id that has a non-terminal record fails with
\* AlreadyListed, whatever its other arguments, and stores nothing.
C2_Original ==
    /\ AtMostOneActive
    /\ \A sender \in Accounts, item_id \in ItemIds, begin_time \in Times,
          start_price \in Prices, bid_range \in BidRanges, item_seller \in Accounts,
          seed \in Seeds, extrinsic_index \in ExtrinsicIndices,
          block_number \in BlockNumbers :
            ActiveRecords(item_id) # {} =>
                LET out == create_auction(sender, item_id, begin_time, start_price,
                                          bid_range, item_seller, seed,
                                          extrinsic_index, block_number)
                IN  /\ out.result = "AlreadyListed"
                    /\ StoreOf(out) = store

\* C2 amended: at most one non-terminal record exists per item_id, and a
\* create_auction for an item_id that has a non-terminal record stores nothing
\* and fails: with AlreadyListed when bid_range > 0, and with InvalidParameter
\* when bid_range is 0 (the parameter check comes first).
C2_Amended ==
    /\ AtMostOneActive
    /\ \A sender \in Accounts, item_id \in ItemIds, begin_time \in Times,
          start_price \in Prices, bid_range \in BidRanges, item_seller \in Accounts,
          seed \in Seeds, extrinsic_index \in ExtrinsicIndices,
          block_number \in BlockNumbers :
            ActiveRecords(item_id) # {} =>
                LET out == create_auction(sender, item_id, begin_time, start_price,
                                          bid_range, item_seller, seed,
                                          extrinsic_index, block_number)
                IN  /\ out.result = IF bid_range > 0 THEN "AlreadyListed"
                                                     ELSE "InvalidParameter"
                    /\ StoreOf(out) = store

\* C2 witness: a create_auction was just rejected with AlreadyListed while
\* its item had a non-terminal record.
C2_Witness ==
    /\ last.op = "create_auction"
    /\ last.result = "AlreadyListed"
    /\ \E item_id \in ItemIds : ActiveRecords(item_id) # {}

\* C3: a place_bid that is accepted on a record that has not expired (its
\* end_time is unset or not yet passed) leaves the record with the bidder as
\* receiver and in status Started.
C3_AcceptedBidSetsReceiver ==
    \A sender \in Accounts, auction_user \in Accounts, record_id \in DOMAIN AuctionRecords :
        LET out == create_auction_record(sender, auction_user, record_id)
            auction_record == AuctionRecords[record_id]
        IN  (/\ out.result = "Ok"
             /\ ~(is_some(auction_record.end_time)
                    /\ get_current_time > unwrap(auction_record.end_time)))
            => /\ out.records[record_id].item_receiver = Some(sender)
               /\ out.records[record_id].status = "Started"

\* C4: no place_bid is accepted below current_price + bid_range.  The bid
\* call carries no amount; the amount of an accepted bid is the price the
\* record holds after it, so every accepted bid leaves current_price at or
\* above the old current_price plus bid_range.
C4_AcceptedBidRaisesPrice ==
    \A sender \in Accounts, auction_user \in Accounts, record_id \in DOMAIN AuctionRecords :
        LET out == create_auction_record(sender, auction_user, record_id)
            auction_record == AuctionRecords[record_id]
        IN  out.result = "Ok"
            => out.records[record_id].current_price
                  >= auction_record.current_price + auction_record.bid_range

\* C5: on a stored record, place_bid fails with SelfBidForbidden, changing
\* nothing, exactly when the signed sender is the record's seller.
C5_SelfBidForbidden ==
    \A sender \in Accounts, auction_user \in Accounts, record_id \in DOMAIN AuctionRecords :
        LET out == create_auction_record(sender, auction_user, record_id)
        IN  /\ (out.result = "SelfBidForbidden")
                  <=> (sender = AuctionRecords[record_id].item_seller)
            /\ out.result = "SelfBidForbidden" => StoreOf(out) = store

\* C6: force_status on a stored record succeeds exactly when the caller is
\* the record's seller; any other caller gets Unauthorized and the record
\* stays as it was.
C6_OnlySellerForcesStatus ==
    \A sender \in Accounts, record_id \in DOMAIN AuctionRecords, status \in AuctionStatus :
        LET out == change_auction_status(sender, record_id, status)
        IN  IF sender = AuctionRecords[record_id].item_seller
            THEN out.result = "Ok"
            ELSE /\ out.result = "Unauthorized"
                 /\ out.records[record_id] = AuctionRecords[record_id]

\* C9: settle on an item whose indexed record is non-terminal and has no
\* end_time succeeds and leaves that record Sold.
C9_OpenEndedSettlesToSold ==
    \A sender \in Accounts, item_id \in ItemIds :
        (/\ Indexed(item_id)
         /\ ~Terminal(AuctionRecords[IndexedId(item_id)].status)
         /\ ~is_some(AuctionRecords[IndexedId(item_id)].end_time))
        => LET out == auction_settle_accounts(sender, item_id)
           IN  /\ out.result = "Ok"
               /\ out.records[IndexedId(item_id)].status = "Selled"

\* C10: a place_bid that reaches the status check (the sender check passed
\* and the record exists) is rejected with NotBiddable exactly when the
\* record is Paused, Sold or Unsold.
C10_NotBiddableStatuses ==
    \A sender \in Accounts, record_id \in DOMAIN AuctionRecords :
        LET out == create_auction_record(sender, sender, record_id)
        IN  (out.result = "NotBiddable")
                <=> (AuctionRecords[record_id].status \in {"Paused", "Selled", "Unselled"})

\* C11: a successful create_auction adds exactly one record, under a record
\* id no stored record has, with status NotStarted, current_price 0, no
\* receiver and the item_id, seller, begin_time, start_price and bid_range
\* given; it adds the index entries item_id -> seller and
\* (seller, item_id) -> record_id; every other record and index entry stays.
C11_CreateAddsOneRecord ==
    \A sender \in Accounts, item_id \in ItemIds, begin_time \in Times,
       start_price \in Prices, bid_range \in BidRanges, item_seller \in Accounts,
       seed \in Seeds, extrinsic_index \in ExtrinsicIndices,
       block_number \in BlockNumbers :
        LET out == create_auction(sender, item_id, begin_time, start_price,
                                  bid_range, item_seller, seed, extrinsic_index,
                                  block_number)
        IN  (HostOffers(extrinsic_index) /\ out.result = "Ok") =>
            /\ \E record_id \in Ids \ DOMAIN AuctionRecords :
                /\ DOMAIN out.records = DOMAIN AuctionRecords \cup {record_id}
                /\ out.records[record_id].record_id = record_id
                /\ out.records[record_id].status = "NotStarted"
                /\ out.records[record_id].current_price = 0
                /\ out.records[record_id].item_receiver = None
                /\ out.records[record_id].item_id = item_id
                /\ out.records[record_id].item_seller = item_seller
                /\ out.records[record_id].begin_time = begin_time
                /\ out.records[record_id].start_price = start_price
                /\ out.records[record_id].bid_range = bid_range
                /\ DOMAIN out.record_ids = DOMAIN RecordIds \cup {<<item_seller, item_id>>}
                /\ out.record_ids[<<item_seller, item_id>>] = record_id
            /\ \A id \in DOMAIN AuctionRecords : out.records[id] = AuctionRecords[id]
            /\ <<item_seller, item_id>> \notin DOMAIN RecordIds
            /\ \A key \in DOMAIN RecordIds : out.record_ids[key] = RecordIds[key]
            /\ item_id \notin DOMAIN AuctionsItemRecord
            /\ DOMAIN out.item_records = DOMAIN AuctionsItemRecord \cup {item_id}
            /\ out.item_records[item_id] = item_seller
            /\ \A item \in DOMAIN AuctionsItemRecord :
                  out.item_records[item] = AuctionsItemRecord[item]

\* C11 witness: a create_auction has just succeeded on a store that already
\* held a record.
C11_Witness ==
    /\ last.op = "create_auction"
    /\ last.result = "Ok"
    /\ Cardinality(DOMAIN AuctionRecords) = 2
    /\ Cardinality(DOMAIN RecordIds) = 2

\* C12: every successful create_auction generates a record id different from
\* the record id of every creation before it.
C12_RecordIdsUnique ==
    \A i \in 1..Len(created), j \in 1..Len(created) :
        i # j => created[i] # created[j]

\* C12 witness: two creations have succeeded, the second by the sender of
\* the first.
C12_Witness ==
    /\ Len(created) = 2
    /\ last.op = "create_auction"
    /\ last.result = "Ok"
    /\ \E sender \in Accounts, seed \in Seeds, block_number \in BlockNumbers :
          \A i \in 1..2 :
              \E extrinsic_index \in ExtrinsicIndices :
                  created[i] = random_value(seed, sender, extrinsic_index, block_number)

\* C14: create_auction with bid_range > 0 returns AlreadyListed only while
\* the item has a stored non-terminal record; for an item whose record is
\* Sold or Unsold it does not return AlreadyListed.
C14_RelistAfterTerminal ==
    \A sender \in Accounts, item_id \in ItemIds, begin_time \in Times,
       start_price \in Prices, bid_range \in BidRanges, item_seller \in Accounts,
       seed \in Seeds, extrinsic_index \in ExtrinsicIndices,
       block_number \in BlockNumbers :
        LET out == create_auction(sender, item_id, begin_time, start_price, bid_range,
                                  item_seller, seed, extrinsic_index, block_number)
        IN  (bid_range > 0 /\ out.result = "AlreadyListed")
                => ActiveRecords(item_id) # {}

\* C15: create_auction with bid_range <= 0 returns InvalidParameter and
\* leaves the records and both indices as they were, and every stored
\* record has bid_range > 0.
C15_RangeMustBePositive ==
    /\ \A sender \in Accounts, item_id \in ItemIds, begin_time \in Times,
          start_price \in Prices, bid_range \in BidRanges, item_seller \in Accounts,
          seed \in Seeds, extrinsic_index \in ExtrinsicIndices,
          block_number \in BlockNumbers :
           LET out == create_auction(sender, item_id, begin_time, start_price,
                                     bid_range, item_seller, seed, extrinsic_index,
                                     block_number)
           IN  (bid_range <= 0) =>
                   /\ out.result = "InvalidParameter"
                   /\ StoreOf(out) = store
    /\ \A id \in DOMAIN AuctionRecords : AuctionRecords[id].bid_range > 0

\* C15 witness: a create_auction was rejected for its bid_range while
\* records were stored and an item was still unlisted.
C15_Witness ==
    /\ last.op = "create_auction"
    /\ last.result = "InvalidParameter"
    /\ DOMAIN AuctionRecords # {}
    /\ ItemIds \ DOMAIN AuctionsItemRecord # {}

\* the calls of the bidding interface alone: creation, bid and settlement
NextBidding == CreateAuction \/ PlaceBid \/ Settle

SpecBidding == Init /\ [][NextBidding]_vars

\* the edges of the status machine
StatusEdges ==
    {<<"NotStarted", "Started">>, <<"Started", "Selled">>, <<"Started", "Unselled">>,
     <<"Started", "Paused">>, <<"Paused", "Started">>}

\* the step a stored record takes from `before` to `after` is no change of
\* status or an edge of the machine, with Sold and Unsold told apart by
\* the receiver
AlongEdge(before, after) ==
    \/ after.status = before.status
    \/ /\ <<before.status, after.status>> \in StatusEdges
       /\ (after.status = "Selled") => is_some(before.item_receiver)
       /\ (after.status = "Unselled") => ~is_some(before.item_receiver)

\* C16: under create_auction, place_bid and settle alone, every change of a
\* stored record's status follows an edge of the status machine; no call
\* moves a record from NotStarted straight to Sold or Unsold.
C16_StatusFollowsEdges ==
    [][\A id \in DOMAIN AuctionRecords \cap DOMAIN AuctionRecords' :
          AlongEdge(AuctionRecords[id], AuctionRecords'[id])]_vars

\* C17: a bid moves a record to Sold or Unsold only when the record's
\* end_time is set and the current time is past it, and then to Sold if the
\* receiver is set and to Unsold otherwise, with current_price and receiver
\* as they were; a bid on a record whose end_time is unset or not yet
\* passed leaves the record out of Sold and Unsold.
C17_BidSettlesOnlyWhenExpired ==
    \A sender \in Accounts, record_id \in DOMAIN AuctionRecords :
        LET before == AuctionRecords[record_id]
            out == create_auction_record(sender, sender, record_id)
            after == out.records[record_id]
        IN  (~Terminal(before.status) /\ Terminal(after.status)) =>
                /\ is_some(before.end_time)
                /\ get_current_time > unwrap(before.end_time)
                /\ after.status = IF is_some(before.item_receiver) THEN "Selled"
                                                                    ELSE "Unselled"
                /\ after.current_price = before.current_price
                /\ after.item_receiver = before.item_receiver

\* C18: a record whose status is Sold or Unsold is left as it is, in every
\* field, by every later place_bid and settle call.
C18_TerminalIsAbsorbing ==
    [][last'.op \in {"place_bid", "settle"} =>
          \A id \in DOMAIN AuctionRecords :
              Terminal(AuctionRecords[id].status) =>
                  /\ id \in DOMAIN AuctionRecords'
                  /\ AuctionRecords'[id] = AuctionRecords[id]]_vars

\* C19: every record stored under a record id is, after every call, still
\* stored under that id with the same record_id, item_id and seller, and
\* its record_id is the id it is stored under.
C19_RecordsKeepIdentity ==
    [][\A id \in DOMAIN AuctionRecords :
          /\ id \in DOMAIN AuctionRecords'
          /\ AuctionRecords'[id].record_id = AuctionRecords[id].record_id
          /\ AuctionRecords'[id].record_id = id
          /\ AuctionRecords'[id].item_id = AuctionRecords[id].item_id
          /\ AuctionRecords'[id].item_seller = AuctionRecords[id].item_seller]_vars

\* C19 witness: a record has been through a change of status and a later
\* creation by the account that created it.
C19_Witness ==
    /\ Len(created) = 2
    /\ Terminal(AuctionRecords[created[1]].status)
    /\ AuctionRecords[created[2]].status = "NotStarted"
    /\ \E sender \in Accounts, seed \in Seeds, block_number \in BlockNumbers :
          \A i \in 1..2 :
              \E extrinsic_index \in ExtrinsicIndices :
                  created[i] = random_value(seed, sender, extrinsic_index, block_number)
====
